---- MODULE Spec2Model ----
(***************************************************************************)
(* Selframe: the influence-scoring engine of the calendar                  *)
(* (src/src/components/Calendar.jsx), the application state that feeds it *)
(* (src/src/App.jsx), its storage and Google Calendar conversion           *)
(* (src/unnamed/part_000) and the sync panel                               *)
(* (src/src/components/GoogleCalendarSync.jsx).                            *)
(*                                                                         *)
(* Representation                                                          *)
(*   - A calendar day is its day number, the count of days since           *)
(*     1970-01-01.  An event's date field, the string 'YYYY-MM-DD', is the *)
(*     day number of that day: two such strings are equal exactly when     *)
(*     their day numbers are.                                              *)
(*   - A JavaScript Date is its instant, in whole hours since the epoch    *)
(*     (UTC).  The local clock is UTC + tz hours.                          *)
(*   - A JavaScript number holding a score is a fixed-point integer in     *)
(*     millionths of a percent point (Micro units per 1%).  Math.pow and   *)
(*     Math.log2 are evaluated in that fixed-point arithmetic, truncating. *)
(*   - A JavaScript value that reaches Number() is a record                *)
(*     [kind, n]: kind "num" (a number or a numeric string, value n),      *)
(*     "empty" (the empty string), "null", "undefined", "text" (a          *)
(*     non-numeric string).  A JavaScript number that may be NaN is a      *)
(*     record [nan, n].                                                    *)
(***************************************************************************)
EXTENDS Integers, Sequences, FiniteSets, TLC

VARIABLES events, currentDate, tz, call, localStorage,
          authStatus, syncStatus, syncHistory, task

\* the state of the GoogleCalendarSync component, and the handlers of it
\* that are under way
syncVars == <<authStatus, syncStatus, syncHistory, task>>

vars == <<events, currentDate, tz, call, localStorage,
          authStatus, syncStatus, syncHistory, task>>

(***************************************************************************)
(* Bounds of the model                                                     *)
(***************************************************************************)
\* longest event list the application state holds
MaxEvents == 2
\* longest event list handed to calculateDayInfluence on its own
MaxStack == 5
\* largest magnitude of a numeric reach value handed to reachToDays
MaxReachInput == 8
\* most items the handlers of the sync panel add to its history
MaxSyncItems == 3

(***************************************************************************)
(* Fixed-point arithmetic                                                  *)
(***************************************************************************)
Micro == 1000000

Max(a, b) == IF a >= b THEN a ELSE b

Min(a, b) == IF a <= b THEN a ELSE b

\* a * b / Micro for fixed-point a, b >= 0 (both below 46 * Micro), truncated
MulMicro(a, b) ==
  LET a1 == a \div 1000
      a0 == a % 1000
      b1 == b \div 1000
      b0 == b % 1000
  IN  a1 * b1 + (a1 * b0 + a0 * b1 + (a0 * b0) \div 1000) \div 1000

\* ln 5 in fixed point: 0.2 ^ x = exp(-x * ln 5)
Ln5Micro == 1609438

\* the number of terms of the exponential series that are summed
ExpTerms == 12

RECURSIVE ExpSeries(_, _, _, _)
\* sum of the terms k.. of  sum_k (-h)^k / k!  given term = h^(k-1)/(k-1)!
ExpSeries(h, k, term, acc) ==
  IF k > ExpTerms \/ term = 0 THEN acc
  ELSE LET t == MulMicro(term, h) \div k
       IN  ExpSeries(h, k + 1, t, IF k % 2 = 1 THEN acc - t ELSE acc + t)

\* exp(-h) for 0 <= h <= 1 (fixed point)
ExpNeg(h) == ExpSeries(h, 1, Micro, Micro)

RECURSIVE PowInt(_, _)
PowInt(b, n) == IF n = 0 THEN 1 ELSE b * PowInt(b, n - 1)

\* Math.pow(0.2, p / q) in fixed point, for integers p >= 0, q > 0
Pow02(p, q) ==
  LET n   == p \div q
      rem == p % q
      A   == rem * (Ln5Micro \div 1000)
      x   == (A \div q) * 1000 + ((A % q) * 1000 + rem * (Ln5Micro % 1000)) \div q
      eh  == ExpNeg(x \div 2)
  IN  IF n > 9 THEN 0 ELSE MulMicro(eh, eh) \div PowInt(5, n)

\* the number of fraction bits Log2 produces
Log2Bits == 20

RECURSIVE Log2Frac(_, _, _)
\* the fraction bits of log2(m) for 1 <= m < 2 (fixed point), by squaring
Log2Frac(m, bit, acc) ==
  IF bit > Log2Bits THEN acc
  ELSE LET sq == MulMicro(m, m)
       IN  IF sq >= 2 * Micro
           THEN Log2Frac(sq \div 2, bit + 1, acc + Micro \div PowInt(2, bit))
           ELSE Log2Frac(sq, bit + 1, acc)

RECURSIVE Log2Micro(_)
\* Math.log2(x) for x >= 1 (fixed point in, fixed point out)
Log2Micro(x) ==
  IF x >= 2 * Micro THEN Micro + Log2Micro(x \div 2)
  ELSE Log2Frac(x, 1, 0)

(***************************************************************************)
(* Dates: the Date constructor and getters of JavaScript                   *)
(***************************************************************************)
HoursPerDay == 24

IsLeapYear(y) == (y % 4 = 0 /\ y % 100 # 0) \/ y % 400 = 0

\* day number of January 1st of year y (ECMAScript DayFromYear)
DayFromYear(y) ==
  365 * (y - 1970) + (y - 1969) \div 4 - (y - 1901) \div 100 + (y - 1601) \div 400

\* m in 0..11
DaysInMonth(y, m) ==
  IF m = 1 THEN (IF IsLeapYear(y) THEN 29 ELSE 28)
  ELSE IF m \in {3, 5, 8, 10} THEN 30 ELSE 31

RECURSIVE DaysBeforeMonth(_, _)
DaysBeforeMonth(y, m) ==
  IF m = 0 THEN 0 ELSE DaysBeforeMonth(y, m - 1) + DaysInMonth(y, m - 1)

\* ECMAScript MakeDay: month and date may lie outside their ranges
MakeDay(year, month, date) ==
  LET ym == year + month \div 12
      mn == month % 12
  IN  DayFromYear(ym) + DaysBeforeMonth(ym, mn) + date - 1

YearFromDay(n) ==
  CHOOSE y \in (1970 + n \div 366 - 1)..(1970 + n \div 365 + 1) :
    DayFromYear(y) <= n /\ n < DayFromYear(y + 1)

MonthFromDay(n) ==
  LET y == YearFromDay(n)
      d == n - DayFromYear(y)
  IN  CHOOSE m \in 0..11 :
        DaysBeforeMonth(y, m) <= d /\ d < DaysBeforeMonth(y, m) + DaysInMonth(y, m)

DateFromDay(n) ==
  LET y == YearFromDay(n)
  IN  n - DayFromYear(y) - DaysBeforeMonth(y, MonthFromDay(n)) + 1

\* 1970-01-01 was a Thursday; 0 = Sunday
WeekDay(n) == (n + 4) % 7

\* new Date(year, month, date): local midnight, as an instant
NewDate(year, month, date, zone) == HoursPerDay * MakeDay(year, month, date) - zone

\* the local calendar day of an instant
LocalDay(t, zone) == (t + zone) \div HoursPerDay

getFullYear(t, zone) == YearFromDay(LocalDay(t, zone))

getMonth(t, zone) == MonthFromDay(LocalDay(t, zone))

getDate(t, zone) == DateFromDay(LocalDay(t, zone))

getDay(t, zone) == WeekDay(LocalDay(t, zone))

\* date.toISOString().split('T')[0]: the UTC calendar day of the instant
ToISODateString(t) == t \div HoursPerDay

\* new Date('YYYY-MM-DD'): a date-only string is UTC midnight of that day
ParseDateString(s) == HoursPerDay * s

(***************************************************************************)
(* JavaScript values                                                       *)
(***************************************************************************)
JsNum(k) == [kind |-> "num", n |-> k]

JsOther(kind) == [kind |-> kind, n |-> 0]

NaN == [nan |-> TRUE, n |-> 0]

\* Number(v)
ToNumber(v) ==
  CASE v.kind = "num" -> [nan |-> FALSE, n |-> v.n]
    [] v.kind \in {"empty", "null"} -> [nan |-> FALSE, n |-> 0]
    [] OTHER -> NaN

\* x || 1: NaN and 0 are falsy
OrOne(x) == IF x.nan \/ x.n = 0 THEN 1 ELSE x.n

(***************************************************************************)
(* ReachConverter                                                          *)
(***************************************************************************)
reachToDays(reachValue, reachUnit) ==
  LET value == OrOne(ToNumber(reachValue))
  IN  CASE reachUnit = "days" -> value
        [] reachUnit = "weeks" -> value * 7
        [] reachUnit = "months" -> value * 30
        [] reachUnit = "years" -> value * 365
        [] OTHER -> value

(***************************************************************************)
(* DayInfluenceCalculator                                                  *)
(***************************************************************************)
\* Math.round of a fixed-point score, in whole percent points
Round(v) == (v + Micro \div 2) \div Micro

\* v.toFixed(1), as a count of tenths
ToFixed1(v) == (v + Micro \div 20) \div (Micro \div 10)

\* a duration 'HH:MM' is <<hours, minutes>>; a missing one is <<>>
TotalMinutes(event) ==
  LET duration == IF event.duration = <<>> THEN <<1, 0>> ELSE event.duration
  IN  duration[1] * 60 + duration[2]

\* the per-event score with both bonuses applied to a long all-day event
EventScore_BothBonuses(event) ==
  LET eventScore == event.impact * 10 * Micro
      allDay == IF event.isAllDay THEN (eventScore \div 10) * 11 ELSE eventScore
  IN  IF TotalMinutes(event) >= 120 THEN (allDay \div 100) * 105 ELSE allDay

\* one same-day event's score: impact * 10, times the duration bonus
EventScore(event) ==
  LET eventScore == event.impact * 10 * Micro
  IN  IF event.isAllDay THEN (eventScore \div 10) * 11
      ELSE IF TotalMinutes(event) >= 120 THEN (eventScore \div 100) * 105
      ELSE eventScore

RECURSIVE SumScores(_)
SumScores(s) == IF s = <<>> THEN 0 ELSE EventScore(Head(s)) + SumScores(Tail(s))

\* the soft cap without the base of 100 under the logarithm's term
SoftCap_NoBase(directScore) ==
  IF directScore > 100 * Micro
  THEN Min(Log2Micro(directScore \div 100) * 15, 120 * Micro)
  ELSE directScore

\* the soft cap with the factor 20 of the code's comment in place of 15
SoftCap_Factor20(directScore) ==
  IF directScore > 100 * Micro
  THEN Min(100 * Micro + Log2Micro(directScore \div 100) * 20, 120 * Micro)
  ELSE directScore

\* diminishing returns after 100%, hard cap at 120%
SoftCap(directScore) ==
  IF directScore > 100 * Micro
  THEN Min(100 * Micro + Log2Micro(directScore \div 100) * 15, 120 * Micro)
  ELSE directScore

\* targetDate - eventDate, in hours
HoursDiff(targetDate, event) == targetDate - ParseDateString(event.date)

\* the reach effect without the factor 0.3
ReachEffect_NoDamping(targetDate, event) ==
  LET hoursDiff == HoursDiff(targetDate, event)
      reachDays == reachToDays(event.reachValue, event.reachUnit)
  IN  IF hoursDiff > 0 /\ hoursDiff <= HoursPerDay * reachDays
      THEN event.impact * 10 * Pow02(5 * hoursDiff, HoursPerDay * reachDays)
      ELSE 0

\* the reach effect with a window one day longer than reachDays
ReachEffect_OneDayMore(targetDate, event) ==
  LET hoursDiff == HoursDiff(targetDate, event)
      reachDays == reachToDays(event.reachValue, event.reachUnit)
  IN  IF hoursDiff > 0 /\ reachDays > 0 /\ hoursDiff - HoursPerDay <= HoursPerDay * reachDays
      THEN event.impact * 3 * Pow02(5 * hoursDiff, HoursPerDay * reachDays)
      ELSE 0

\* the reach effect with the window and the exponent taken on the absolute
\* value of reachDays
ReachEffect_AbsReach(targetDate, event) ==
  LET hoursDiff == HoursDiff(targetDate, event)
      reachDays == reachToDays(event.reachValue, event.reachUnit)
      absDays == IF reachDays < 0 THEN 0 - reachDays ELSE reachDays
  IN  IF hoursDiff > 0 /\ hoursDiff <= HoursPerDay * absDays
      THEN event.impact * 3 * Pow02(5 * hoursDiff, HoursPerDay * absDays)
      ELSE 0

\* the reach effect without the upper end of the window: the decay goes on
\* past reachDays
ReachEffect_NoWindow(targetDate, event) ==
  LET hoursDiff == HoursDiff(targetDate, event)
      reachDays == reachToDays(event.reachValue, event.reachUnit)
  IN  IF hoursDiff > 0 /\ reachDays > 0
      THEN event.impact * 3 * Pow02(5 * hoursDiff, HoursPerDay * reachDays)
      ELSE 0

\* the reach effect taken on the absolute distance in time, so that an event
\* reaches backwards as well
ReachEffect_Abs(targetDate, event) ==
  LET diff == HoursDiff(targetDate, event)
      hoursDiff == IF diff < 0 THEN 0 - diff ELSE diff
      reachDays == reachToDays(event.reachValue, event.reachUnit)
  IN  IF hoursDiff > 0 /\ hoursDiff <= HoursPerDay * reachDays
      THEN event.impact * 3 * Pow02(5 * hoursDiff, HoursPerDay * reachDays)
      ELSE 0

\* what one event adds to reachScore for the target date:
\* impact * 10 * decayFactor * 0.3, the factors 10 and 0.3 taken together as 3
ReachEffect(targetDate, event) ==
  LET hoursDiff == HoursDiff(targetDate, event)
      reachDays == reachToDays(event.reachValue, event.reachUnit)
  IN  IF hoursDiff = 0 THEN 0
      ELSE IF hoursDiff < 0 THEN 0
      ELSE IF hoursDiff > 0 /\ hoursDiff <= HoursPerDay * reachDays
      THEN event.impact * 3 * Pow02(5 * hoursDiff, HoursPerDay * reachDays)
      ELSE 0

RECURSIVE SumReach(_, _)
SumReach(targetDate, s) ==
  IF s = <<>> THEN 0
  ELSE ReachEffect(targetDate, Head(s)) + SumReach(targetDate, Tail(s))

\* Math.round(daysDiff)
RoundDays(hoursDiff) == (hoursDiff + HoursPerDay \div 2) \div HoursPerDay

DirectEntry(event) ==
  [name |-> event.name, impact |-> event.impact, score |-> ToFixed1(EventScore(event))]

ReachEntry(targetDate, event) ==
  [name |-> event.name, date |-> event.date,
   daysDiff |-> RoundDays(HoursDiff(targetDate, event)),
   effect |-> ToFixed1(ReachEffect(targetDate, event)),
   impact |-> event.impact]

RECURSIVE InsertByEffect(_, _)
\* a stable insertion for the comparator b.effect - a.effect
InsertByEffect(sorted, x) ==
  IF sorted = <<>> THEN <<x>>
  ELSE IF Head(sorted).effect >= x.effect
       THEN <<Head(sorted)>> \o InsertByEffect(Tail(sorted), x)
       ELSE <<x>> \o sorted

RECURSIVE SortByEffect(_)
SortByEffect(s) ==
  IF s = <<>> THEN <<>>
  ELSE InsertByEffect(SortByEffect(SubSeq(s, 1, Len(s) - 1)), s[Len(s)])

\* the combination as a plain sum of the two parts
Combine_Sum(directScore, reachScore) == directScore + reachScore

\* the combination without the 1.2 multiplier on the reach part
Combine_NoBoost(directScore, reachScore) ==
  IF directScore > 0 THEN Max(directScore, reachScore) ELSE reachScore

\* the combination of the direct and the reach part
Combine(directScore, reachScore) ==
  IF directScore > 0 THEN Max(directScore, (reachScore * 6) \div 5)
  ELSE reachScore

\* calculateDayInfluence with the soft cap spread over the listed scores: each
\* entry's score is scaled by directScore / raw sum
calculateDayInfluence_ScaledEntries(date, evs) ==
  LET targetDate == date
      dateString == ToISODateString(targetDate)
      OnDay(event) == event.date = dateString
      dayEvents == SelectSeq(evs, OnDay)
      rawSum == SumScores(dayEvents)
      directScore == SoftCap(rawSum)
      reachScore == SumReach(targetDate, evs)
      Shown(event) == ReachEffect(targetDate, event) > Micro \div 2
      shown == SelectSeq(evs, Shown)
      Scaled(event) ==
        (((EventScore(event) \div 10000) * (directScore \div 10000))
           \div (rawSum \div 10000) + 5) \div 10
  IN  [total |-> Combine(directScore, reachScore),
       direct |-> directScore,
       reach |-> reachScore,
       directEvents |->
         [i \in 1..Len(dayEvents) |->
            [name |-> dayEvents[i].name, impact |-> dayEvents[i].impact,
             score |-> Scaled(dayEvents[i])]],
       reachContributions |->
         SortByEffect([i \in 1..Len(shown) |-> ReachEntry(targetDate, shown[i])])]

calculateDayInfluence(date, evs) ==
  LET targetDate == date
      dateString == ToISODateString(targetDate)
      OnDay(event) == event.date = dateString
      dayEvents == SelectSeq(evs, OnDay)
      directScore == SoftCap(SumScores(dayEvents))
      reachScore == SumReach(targetDate, evs)
      Shown(event) == ReachEffect(targetDate, event) > Micro \div 2
      shown == SelectSeq(evs, Shown)
  IN  [total |-> Combine(directScore, reachScore),
       direct |-> directScore,
       reach |-> reachScore,
       directEvents |-> [i \in 1..Len(dayEvents) |-> DirectEntry(dayEvents[i])],
       reachContributions |->
         SortByEffect([i \in 1..Len(shown) |-> ReachEntry(targetDate, shown[i])])]

(***************************************************************************)
(* MonthInfluenceAggregator                                                *)
(***************************************************************************)
\* normalizeInfluenceScore without the cap at 100
normalizeInfluenceScore_NoCap(rawScore, allRawScores) == Round(rawScore)

normalizeInfluenceScore(rawScore, allRawScores) == Min(100, Round(rawScore))

\* the number of cells of the grid: 6 weeks
GridCells == 42

\* remainingDays for a grid of 5 weeks
RemainingDays_FiveWeeks(filled) == 35 - filled

\* the cells left for the next month once `filled` cells are in the grid
RemainingDays(filled) == GridCells - filled

LeadingCell(year, month, daysInPrevMonth, i, zone) ==
  [date |-> daysInPrevMonth - i,
   isCurrentMonth |-> FALSE,
   fullDate |-> NewDate(year, month - 1, daysInPrevMonth - i, zone),
   events |-> <<>>]

\* the in-month cell scored on the events of the displayed month only
MonthCell_MonthEvents(year, month, day, evs, zone) ==
  LET fullDate == NewDate(year, month, day, zone)
      dateString == ToISODateString(fullDate)
      OnDay(event) == event.date = dateString
      InMonth(event) == MonthFromDay(event.date) = month /\ YearFromDay(event.date) = year
      influenceBreakdown == calculateDayInfluence(fullDate, SelectSeq(evs, InMonth))
      rawInfluenceScore == influenceBreakdown.total
  IN  [date |-> day,
       isCurrentMonth |-> TRUE,
       fullDate |-> fullDate,
       dateString |-> dateString,
       events |-> SelectSeq(evs, OnDay),
       rawInfluenceScore |-> rawInfluenceScore,
       influenceBreakdown |-> influenceBreakdown,
       influenceScore |-> normalizeInfluenceScore(rawInfluenceScore, <<>>)]

MonthCell(year, month, day, evs, zone) ==
  LET fullDate == NewDate(year, month, day, zone)
      dateString == ToISODateString(fullDate)
      OnDay(event) == event.date = dateString
      influenceBreakdown == calculateDayInfluence(fullDate, evs)
      rawInfluenceScore == influenceBreakdown.total
  IN  [date |-> day,
       isCurrentMonth |-> TRUE,
       fullDate |-> fullDate,
       dateString |-> dateString,
       events |-> SelectSeq(evs, OnDay),
       rawInfluenceScore |-> rawInfluenceScore,
       influenceBreakdown |-> influenceBreakdown,
       influenceScore |-> normalizeInfluenceScore(rawInfluenceScore, <<>>)]

TrailingCell(year, month, day, zone) ==
  [date |-> day,
   isCurrentMonth |-> FALSE,
   fullDate |-> NewDate(year, month + 1, day, zone),
   events |-> <<>>]

\* the grid of the month that holds the instant current
calendarData(current, evs, zone) ==
  LET year == getFullYear(current, zone)
      month == getMonth(current, zone)
      firstDay == NewDate(year, month, 1, zone)
      lastDay == NewDate(year, month + 1, 0, zone)
      daysInMonth == getDate(lastDay, zone)
      startingDayOfWeek == getDay(firstDay, zone)
      prevMonth == NewDate(year, month - 1, 0, zone)
      daysInPrevMonth == getDate(prevMonth, zone)
      leading == [k \in 1..startingDayOfWeek |->
                    LeadingCell(year, month, daysInPrevMonth, startingDayOfWeek - k, zone)]
      inMonth == [day \in 1..daysInMonth |-> MonthCell(year, month, day, evs, zone)]
      remainingDays == RemainingDays(Len(leading) + Len(inMonth))
      trailing == [day \in 1..remainingDays |-> TrailingCell(year, month, day, zone)]
  IN  leading \o inMonth \o trailing

(***************************************************************************)
(* The application: the event list and the form (App.jsx)                  *)
(***************************************************************************)
\* ln 2 in fixed point: Math.log(x) = Math.log2(x) * ln 2
Ln2Micro == 693147

\* App.jsx's reachToDays with a default branch that returns one day
App_reachToDays_DefaultOne(reachValue, reachUnit) ==
  LET value == OrOne(ToNumber(reachValue))
  IN  CASE reachUnit = "days" -> value
        [] reachUnit = "weeks" -> value * 7
        [] reachUnit = "months" -> value * 30
        [] reachUnit = "years" -> value * 365
        [] OTHER -> 1

\* reachToDays as App.jsx defines it
App_reachToDays(reachValue, reachUnit) ==
  LET value == OrOne(ToNumber(reachValue))
  IN  CASE reachUnit = "days" -> value
        [] reachUnit = "weeks" -> value * 7
        [] reachUnit = "months" -> value * 30
        [] reachUnit = "years" -> value * 365
        [] OTHER -> value

durationToMinutes(duration) ==
  IF duration = <<>> THEN 60 ELSE duration[1] * 60 + duration[2]

\* impact * Math.log(1 + minutes) * reachDays, toFixed(1), as a count of tenths
calculateRippleScore(impact, duration, isAllDay, reachValue, reachUnit) ==
  LET durationMinutes == IF isAllDay THEN 8 * 60 ELSE durationToMinutes(duration)
      reachDays == App_reachToDays(reachValue, reachUnit)
      logTenThousandths == MulMicro(Log2Micro((1 + durationMinutes) * Micro), Ln2Micro) \div 100
  IN  (impact * reachDays * logTenThousandths + 500) \div 1000

\* the days the form's date field is set to
FormDates == {MakeDay(2024, 1, 28), MakeDay(2024, 1, 29)}

FormImpacts == {1, 10}

FormReach == {<<JsNum(1), "days">>, <<JsNum(1), "years">>}

FormData ==
  [name : {"walk"}, category : {"exercise"}, date : FormDates,
   duration : {<<1, 0>>}, isAllDay : {FALSE}, impact : FormImpacts,
   reach : FormReach]

\* the values Date.now() returns
Clock == 1..MaxEvents

\* the displayed months the navigation is followed through, as <<year, month>>
ViewMonths == {<<2024, 1>>, <<2024, 2>>}

GridYears == 2023..2026

AllMonths == GridYears \X (0..11)

\* the offsets of local time from UTC, in hours
TimeZones == {-5, 0, 2}

MonthOf(t, zone) == <<getFullYear(t, zone), getMonth(t, zone)>>

NoCall == [op |-> "none"]

(***************************************************************************)
(* StorageManager (src/unnamed/part_000) and the effects of App.jsx        *)
(***************************************************************************)
\* what getItem returns for a key that holds nothing
Null == [text |-> FALSE]

\* an event as JSON text holds it: a property whose value is undefined is
\* left out
JsonEvent(event) ==
  [event EXCEPT !.reachValue = IF @.kind = "undefined" THEN JsOther("absent") ELSE @]

\* an event read from JSON text: a property that is not there reads as
\* undefined
ParsedEvent(jsonEvent) ==
  [jsonEvent EXCEPT !.reachValue = IF @.kind = "absent" THEN JsOther("undefined") ELSE @]

\* JSON.stringify of an event list: a text, which is truthy
JSONStringify(evs) == [text |-> TRUE, json |-> [i \in 1..Len(evs) |-> JsonEvent(evs[i])]]

\* JSON.parse of a text that JSON.stringify wrote
JSONParse(item) == [i \in 1..Len(item.json) |-> ParsedEvent(item.json[i])]

\* a browser that refuses access to localStorage: every call on it throws
DisabledStorage == [enabled |-> FALSE, primary |-> Null, backup |-> Null]

EmptyStorage == [enabled |-> TRUE, primary |-> Null, backup |-> Null]

\* saveEvents writing the backup after the primary key: the backup then
\* holds the new list
saveEvents_BackupAfter(evs, storage) ==
  IF ~storage.enabled THEN storage
  ELSE [enabled |-> TRUE,
        primary |-> JSONStringify(evs),
        backup |-> IF storage.primary.text THEN JSONStringify(evs) ELSE storage.backup]

\* the storage after StorageManager.saveEvents(evs): the current data goes to
\* the backup key first; a thrown error is caught and nothing is written
saveEvents(evs, storage) ==
  IF ~storage.enabled THEN storage
  ELSE LET currentData == storage.primary
       IN  [enabled |-> TRUE,
            primary |-> JSONStringify(evs),
            backup |-> IF currentData.text THEN currentData ELSE storage.backup]

\* what StorageManager.loadEvents() returns
loadEvents(storage) ==
  IF ~storage.enabled THEN <<>>
  ELSE IF storage.primary.text THEN JSONParse(storage.primary)
  ELSE <<>>

\* the storage after StorageManager.clearAllData()
clearAllData(storage) ==
  IF ~storage.enabled THEN storage
  ELSE [enabled |-> TRUE, primary |-> Null, backup |-> Null]

\* the effect that runs after events has changed: it saves a list that is
\* not empty
saveEffect(evs, storage) ==
  IF Len(evs) > 0 THEN saveEvents(evs, storage) ELSE storage

\* no call of a handler is under way
NoTask == [op |-> "none"]

\* the GoogleCalendarSync component as it is mounted, nobody signed in
SyncMounted ==
  /\ syncStatus = [isExporting |-> FALSE, isImporting |-> FALSE, lastSync |-> "null",
                   exportCount |-> 0, importCount |-> 0]
  /\ syncHistory = <<>>
  /\ task = [export |-> NoTask, import |-> NoTask]

SyncIdle ==
  /\ authStatus = [isSignedIn |-> FALSE]
  /\ SyncMounted

newEvent(formData, now) ==
  [id |-> now,
   name |-> formData.name,
   category |-> formData.category,
   date |-> formData.date,
   duration |-> formData.duration,
   isAllDay |-> formData.isAllDay,
   impact |-> formData.impact,
   reachValue |-> formData.reach[1],
   reachUnit |-> formData.reach[2],
   rippleScore |-> calculateRippleScore(formData.impact, formData.duration,
                     formData.isAllDay, formData.reach[1], formData.reach[2])]

\* the form is submitted: the new event goes to the front of the list
handleSubmit(forms) ==
  /\ Len(events) < MaxEvents
  /\ \E formData \in forms, now \in Clock :
       /\ \A i \in 1..Len(events) : events[i].id < now
       /\ formData.name # ""
       /\ events' = <<newEvent(formData, now)>> \o events
  /\ localStorage' = saveEffect(events', localStorage)
  /\ UNCHANGED <<currentDate, tz, call, syncVars>>

deleteEvent ==
  /\ \E i \in 1..Len(events) :
       LET id == events[i].id
           Keep(event) == event.id # id
       IN  events' = SelectSeq(events, Keep)
  /\ localStorage' = saveEffect(events', localStorage)
  /\ UNCHANGED <<currentDate, tz, call, syncVars>>

goToPreviousMonth(window) ==
  /\ currentDate' = NewDate(getFullYear(currentDate, tz), getMonth(currentDate, tz) - 1, 1, tz)
  /\ MonthOf(currentDate', tz) \in window
  /\ UNCHANGED <<events, tz, call, localStorage, syncVars>>

goToNextMonth(window) ==
  /\ currentDate' = NewDate(getFullYear(currentDate, tz), getMonth(currentDate, tz) + 1, 1, tz)
  /\ MonthOf(currentDate', tz) \in window
  /\ UNCHANGED <<events, tz, call, localStorage, syncVars>>

\* the grid the calendar shows in the current state
calendarDays == calendarData(currentDate, events, tz)

Init ==
  /\ events = <<>>
  /\ tz \in TimeZones
  /\ \E ym \in ViewMonths : currentDate = NewDate(ym[1], ym[2], 1, tz)
  /\ call = NoCall
  /\ localStorage = DisabledStorage
  /\ SyncIdle

Next ==
  \/ handleSubmit(FormData)
  \/ deleteEvent
  \/ goToPreviousMonth(ViewMonths)
  \/ goToNextMonth(ViewMonths)

Spec == Init /\ [][Next]_vars

(***************************************************************************)
(* The month grid alone, followed through every month of GridYears         *)
(***************************************************************************)
InitGrid ==
  /\ events = <<>>
  /\ tz \in TimeZones
  /\ \E ym \in AllMonths : currentDate = NewDate(ym[1], ym[2], 1, tz)
  /\ call = NoCall
  /\ localStorage = DisabledStorage
  /\ SyncIdle

NextGrid ==
  \/ goToPreviousMonth(AllMonths)
  \/ goToNextMonth(AllMonths)

SpecGrid == InitGrid /\ [][NextGrid]_vars

(***************************************************************************)
(* The pure functions on their own: a call is drawn, then it returns       *)
(***************************************************************************)
\* the day the calls of calculateDayInfluence are about: 2024-02-29
TargetDay == MakeDay(2024, 1, 29)

Event(date, impact, duration, isAllDay, reachValue, reachUnit) ==
  [id |-> 0, name |-> "walk", category |-> "exercise", date |-> date,
   duration |-> duration, isAllDay |-> isAllDay, impact |-> impact,
   reachValue |-> reachValue, reachUnit |-> reachUnit,
   rippleScore |-> calculateRippleScore(impact, duration, isAllDay, reachValue, reachUnit)]

\* the events the lists handed to calculateDayInfluence are made of: one of
\* the day before with a long reach, two of the day itself, one of the day
\* after, one whose reach ended before the day
StackChoices ==
  { Event(TargetDay - 1, 10, <<1, 0>>, FALSE, JsNum(1), "years"),
    Event(TargetDay, 10, <<2, 0>>, FALSE, JsNum(1), "days"),
    Event(TargetDay, 1, <<>>, TRUE, JsNum(2), "weeks"),
    Event(TargetDay + 1, 5, <<0, 30>>, FALSE, JsOther("undefined"), "months"),
    Event(TargetDay - 3, 5, <<1, 0>>, FALSE, JsNum(2), "days") }

\* events with fields missing or out of the form's range: a negative reach
\* and no duration, a reach of zero with no unit, and an event of the day
\* with no duration, no reach value and no unit
OddChoices ==
  { Event(TargetDay - 1, 10, <<>>, FALSE, JsNum(-3), "days"),
    Event(TargetDay - 1, 5, <<>>, FALSE, JsNum(0), ""),
    Event(TargetDay, 1, <<>>, FALSE, JsOther("undefined"), "") }

\* events of TargetDay on either side of each duration bonus: an all-day
\* event with a duration of three hours, timed events of 2:00 and of 1:59,
\* and a timed event with no duration
BonusChoices ==
  { Event(TargetDay, 10, <<3, 0>>, TRUE, JsNum(1), "days"),
    Event(TargetDay, 4, <<2, 0>>, FALSE, JsNum(1), "days"),
    Event(TargetDay, 4, <<1, 59>>, FALSE, JsNum(1), "days"),
    Event(TargetDay, 7, <<>>, FALSE, JsNum(1), "days") }

RECURSIVE SeqsUpTo(_, _)
\* the sequences over S of length at most n
SeqsUpTo(S, n) ==
  IF n = 0 THEN {<<>>}
  ELSE LET shorter == SeqsUpTo(S, n - 1)
       IN  shorter \cup {<<x>> \o s : x \in S, s \in {t \in shorter : Len(t) = n - 1}}

\* each event of the list gets an id of its own
WithIds(s) == [i \in 1..Len(s) |-> [s[i] EXCEPT !.id = Len(s) + 1 - i]]

DayCall(date, s) ==
  [op |-> "calculateDayInfluence", done |-> FALSE, date |-> date, events |-> WithIds(s)]

\* the days whose local midnight is a target date, as <<year, month, date>>:
\* TargetDay, and the third
\* day after it, where an impact-1 event of TargetDay with a reach of two
\* weeks has decayed to about 0.53
TargetDays == {<<2024, 1, 29>>, <<2024, 2, 3>>}

\* the target dates: midnight of TargetDay in UTC with lists of up to
\* MaxStack events, midnight of each of TargetDays in every zone with lists
\* of up to MaxEvents events, and in UTC with lists of OddChoices and of
\* BonusChoices
DayCalls ==
  { DayCall(NewDate(2024, 1, 29, 0), s) : s \in SeqsUpTo(StackChoices, MaxStack) }
    \cup { DayCall(NewDate(day[1], day[2], day[3], zone), s) :
             day \in TargetDays, zone \in TimeZones,
             s \in SeqsUpTo(StackChoices, MaxEvents) }
    \cup { DayCall(NewDate(day[1], day[2], day[3], 0), s) :
             day \in TargetDays, s \in SeqsUpTo(OddChoices, MaxEvents) }
    \cup { DayCall(NewDate(2024, 1, 29, 0), s) : s \in SeqsUpTo(BonusChoices, MaxEvents) }

ReachValues ==
  {JsNum(k) : k \in (0 - MaxReachInput)..MaxReachInput}
    \cup {JsOther(kind) : kind \in {"empty", "null", "undefined", "text"}}

ReachUnits == {"days", "weeks", "months", "years", "hours", ""}

ReachCalls ==
  { [op |-> "reachToDays", done |-> FALSE, reachValue |-> v, reachUnit |-> u] :
    v \in ReachValues, u \in ReachUnits }

\* the calls of App.jsx's reachToDays, on the same inputs
AppReachCalls ==
  { [op |-> "App.reachToDays", done |-> FALSE, reachValue |-> v, reachUnit |-> u] :
    v \in ReachValues, u \in ReachUnits }

\* the calls of calendarData: the 1st of a displayed month in UTC, with
\* lists of up to MaxEvents events
GridCalls ==
  { [op |-> "calendarData", done |-> FALSE, date |-> NewDate(ym[1], ym[2], 1, 0),
     zone |-> 0, events |-> WithIds(s)] :
    ym \in ViewMonths, s \in SeqsUpTo(StackChoices, MaxEvents) }

\* the caller's array after a call with the default duration written back
\* into the events that lack one
EventsAfterRead_DefaultsWritten(evs) ==
  [i \in 1..Len(evs) |-> [evs[i] EXCEPT !.duration = IF @ = <<>> THEN <<1, 0>> ELSE @]]

\* the caller's array after a call: the code applies filter and forEach to
\* it, which build new arrays and read the events' fields, and sorts only
\* the reachContributions array it has built itself
EventsAfterRead(evs) == evs

ReturnDayInfluence ==
  /\ call.op = "calculateDayInfluence"
  /\ ~call.done
  /\ call' = [op |-> call.op, done |-> TRUE, date |-> call.date,
              events |-> EventsAfterRead(call.events),
              result |-> calculateDayInfluence(call.date, call.events)]
  /\ UNCHANGED <<events, currentDate, tz, localStorage, syncVars>>

ReturnReachToDays ==
  /\ call.op = "reachToDays"
  /\ ~call.done
  /\ call' = [op |-> call.op, done |-> TRUE, reachValue |-> call.reachValue,
              reachUnit |-> call.reachUnit,
              result |-> reachToDays(call.reachValue, call.reachUnit)]
  /\ UNCHANGED <<events, currentDate, tz, localStorage, syncVars>>

ReturnAppReachToDays ==
  /\ call.op = "App.reachToDays"
  /\ ~call.done
  /\ call' = [op |-> call.op, done |-> TRUE, reachValue |-> call.reachValue,
              reachUnit |-> call.reachUnit,
              result |-> App_reachToDays(call.reachValue, call.reachUnit)]
  /\ UNCHANGED <<events, currentDate, tz, localStorage, syncVars>>

ReturnCalendarData ==
  /\ call.op = "calendarData"
  /\ ~call.done
  /\ call' = [op |-> call.op, done |-> TRUE, date |-> call.date, zone |-> call.zone,
              events |-> EventsAfterRead(call.events),
              result |-> calendarData(call.date, call.events, call.zone)]
  /\ UNCHANGED <<events, currentDate, tz, localStorage, syncVars>>

(***************************************************************************)
(* GoogleCalendarService: the two conversions (src/unnamed/part_000)       *)
(***************************************************************************)
\* the text " (Selframe)" appended to the title of an exported event
Marker == " (Selframe)"

\* Number.prototype.toString of an integer or a score: the text of the number
NumberToString(n) == [str |-> n]

\* parseInt and parseFloat of the text of a number
parseNumber(text) == text.str

\* Date.prototype.toISOString of an instant in minutes: the UTC day and the
\* minute of that day
toISOString(t) == [day |-> t \div (60 * HoursPerDay), minute |-> t % (60 * HoursPerDay)]

\* new Date(dateTime) of such a text: the instant in minutes
ParseDateTime(dateTime) == 60 * HoursPerDay * dateTime.day + dateTime.minute

\* String.prototype.replace(Marker, ''): the first occurrence of the marker
\* is taken out of the pieces of the title, the other pieces stay
RECURSIVE ReplaceMarker(_)
ReplaceMarker(pieces) ==
  IF pieces = <<>> THEN <<>>
  ELSE IF Head(pieces) = Marker THEN Tail(pieces)
  ELSE <<Head(pieces)>> \o ReplaceMarker(Tail(pieces))

\* the text the pieces of a title make; the names of the model hold no marker,
\* so at most one piece is left
JoinPieces(pieces) == IF pieces = <<>> THEN "" ELSE Head(pieces)

\* a Selframe event as a Google Calendar event. The date text is read as UTC
\* midnight; an all-day event carries its date only, a timed one the instants
\* of its start and of its end, the end being duration later (setHours and
\* setMinutes in a zone whose clock does not change in between). A timed
\* event without a duration, or an event whose reachValue is undefined, makes
\* the conversion throw.
convertSelframeToGoogle(selframeEvent) ==
  IF \/ (~selframeEvent.isAllDay /\ selframeEvent.duration = <<>>)
     \/ selframeEvent.reachValue.kind # "num"
  THEN [throws |-> TRUE]
  ELSE
    LET eventDate == 60 * HoursPerDay * selframeEvent.date
        endTime == eventDate + 60 * selframeEvent.duration[1] + selframeEvent.duration[2]
        private == [selframeId |-> NumberToString(selframeEvent.id),
                    selframeCategory |-> selframeEvent.category,
                    selframeImpact |-> NumberToString(selframeEvent.impact),
                    selframeReachValue |-> NumberToString(selframeEvent.reachValue.n),
                    selframeReachUnit |-> selframeEvent.reachUnit,
                    selframeRippleScore |-> NumberToString(selframeEvent.rippleScore)]
    IN  IF selframeEvent.isAllDay
        THEN [throws |-> FALSE, summary |-> <<selframeEvent.name, Marker>>,
              allDay |-> TRUE,
              start |-> [date |-> selframeEvent.date],
              end |-> [date |-> selframeEvent.date],
              private |-> private]
        ELSE [throws |-> FALSE, summary |-> <<selframeEvent.name, Marker>>,
              allDay |-> FALSE,
              start |-> [dateTime |-> toISOString(eventDate)],
              end |-> [dateTime |-> toISOString(endTime)],
              private |-> private]

\* a Google Calendar event that carries a selframeId as a Selframe event (the
\* Google events of the model are the ones convertSelframeToGoogle built).
\* The date is the start date, or the part of the start text before 'T'; the
\* duration is '01:00' unless the event is timed, and then the time from
\* start to end in whole hours and minutes.
convertGoogleToSelframe(googleEvent) ==
  LET isAllDay == googleEvent.allDay
      eventDate == IF isAllDay THEN googleEvent.start.date
                   ELSE googleEvent.start.dateTime.day
      durationMs == ParseDateTime(googleEvent.end.dateTime)
                      - ParseDateTime(googleEvent.start.dateTime)
      duration == IF isAllDay THEN <<1, 0>>
                  ELSE <<durationMs \div 60, durationMs % 60>>
      title == JoinPieces(ReplaceMarker(googleEvent.summary))
  IN  [id |-> parseNumber(googleEvent.private.selframeId),
       name |-> IF title = "" THEN "Imported Event" ELSE title,
       category |-> googleEvent.private.selframeCategory,
       date |-> eventDate,
       duration |-> duration,
       isAllDay |-> isAllDay,
       impact |-> parseNumber(googleEvent.private.selframeImpact),
       reachValue |-> JsNum(parseNumber(googleEvent.private.selframeReachValue)),
       reachUnit |-> googleEvent.private.selframeReachUnit,
       rippleScore |-> parseNumber(googleEvent.private.selframeRippleScore),
       importedFromGoogle |-> FALSE]

\* an event exported to Google Calendar and imported again
RoundTrip(selframeEvent) ==
  LET googleEvent == convertSelframeToGoogle(selframeEvent)
  IN  IF googleEvent.throws THEN [throws |-> TRUE]
      ELSE [throws |-> FALSE, event |-> convertGoogleToSelframe(googleEvent)]

\* the events sent through both conversions: timed ones of an hour and of two
\* and a half hours, all-day ones made with the duration field at '01:00' and
\* at '02:00', each with the id 0 and with a later id
GoogleChoices ==
  { [e EXCEPT !.id = id] :
      e \in { Event(TargetDay, 5, <<1, 0>>, FALSE, JsNum(1), "days"),
              Event(TargetDay, 10, <<2, 30>>, FALSE, JsNum(2), "weeks"),
              Event(TargetDay + 1, 1, <<1, 0>>, TRUE, JsNum(1), "days"),
              Event(TargetDay, 1, <<2, 0>>, TRUE, JsNum(1), "months") },
      id \in {0, 7} }

GoogleCalls == { [op |-> "googleRoundTrip", done |-> FALSE, event |-> e] : e \in GoogleChoices }

ReturnRoundTrip ==
  /\ call.op = "googleRoundTrip"
  /\ ~call.done
  /\ call' = [op |-> call.op, done |-> TRUE, event |-> call.event,
              result |-> RoundTrip(call.event)]
  /\ UNCHANGED <<events, currentDate, tz, localStorage, syncVars>>

InitPure ==
  /\ events = <<>>
  /\ tz = 0
  /\ currentDate = NewDate(2024, 1, 1, 0)
  /\ call \in DayCalls \cup ReachCalls \cup AppReachCalls \cup GridCalls \cup GoogleCalls
  /\ localStorage = DisabledStorage
  /\ SyncIdle

NextPure ==
  \/ ReturnDayInfluence
  \/ ReturnReachToDays
  \/ ReturnAppReachToDays
  \/ ReturnCalendarData
  \/ ReturnRoundTrip

SpecPure == InitPure /\ [][NextPure]_vars

(***************************************************************************)
(* The application with its storage: add, delete, clear, reload            *)
(***************************************************************************)
\* the forms submitted while the storage is followed
StoreForms ==
  {formData \in FormData :
     formData.date = MakeDay(2024, 1, 29) /\ formData.reach = <<JsNum(1), "days">>}

\* both confirmations given: the list is emptied and the storage cleared;
\* the save effect that follows finds an empty list
handleClearAllData ==
  /\ events' = <<>>
  /\ localStorage' = saveEffect(events', clearAllData(localStorage))
  /\ UNCHANGED <<currentDate, tz, call, syncVars>>

\* the page is loaded again: the mount effect sets events to what loadEvents
\* returns, and the save effect follows
mount ==
  /\ events' = loadEvents(localStorage)
  /\ localStorage' = saveEffect(events', localStorage)
  /\ UNCHANGED <<currentDate, tz, call, syncVars>>

\* an event of an imported file with the given id; 0 stands for a missing id
FileEvent(id) == [Event(TargetDay, 5, <<1, 0>>, FALSE, JsNum(1), "days") EXCEPT !.id = id]

\* the parsed contents of the files the user picks: with an id the list may
\* hold already, with a new id, with the new id twice, and without an id
ImportFiles ==
  { <<>>,
    <<FileEvent(1)>>,
    <<FileEvent(MaxEvents + 1)>>,
    <<FileEvent(1), FileEvent(MaxEvents + 1)>>,
    <<FileEvent(MaxEvents + 1), FileEvent(MaxEvents + 1)>>,
    <<FileEvent(0)>> }

\* the validation of StorageManager.importEvents: every event has a truthy
\* id, name, category and date
IsValidFile(file) ==
  \A i \in 1..Len(file) :
    file[i].id # 0 /\ file[i].name # "" /\ file[i].category # "" /\ file[i].date # 0

\* a file is picked: when it fails validation or the user declines, nothing
\* changes; otherwise its events with ids the list does not hold go in front
handleImportEvents ==
  /\ \E file \in ImportFiles, confirmed \in BOOLEAN :
       LET importedEvents == file
           existingIds == {events[i].id : i \in 1..Len(events)}
           IsNew(e) == e.id \notin existingIds
           newEvents == SelectSeq(importedEvents, IsNew)
       IN  events' = IF IsValidFile(file) /\ confirmed THEN newEvents \o events ELSE events
  /\ localStorage' = IF events' # events THEN saveEffect(events', localStorage)
                     ELSE localStorage
  /\ UNCHANGED <<currentDate, tz, call, syncVars>>

InitStore ==
  /\ events = <<>>
  /\ tz = 0
  /\ currentDate = NewDate(2024, 1, 1, 0)
  /\ call = NoCall
  /\ localStorage = EmptyStorage
  /\ SyncIdle

NextStore ==
  \/ handleSubmit(StoreForms)
  \/ deleteEvent
  \/ handleClearAllData
  \/ mount
  \/ handleImportEvents

SpecStore == InitStore /\ [][NextStore]_vars

(***************************************************************************)
(* GoogleCalendarSync: export, import and the sync history                 *)
(***************************************************************************)
\* the number of items the history keeps
HistoryKept == 10

\* addSyncHistoryItem keeping one item more: prev.slice(0, 10)
addSyncHistoryItem_KeepsEleven(history, type, message) ==
  LET item == [id |-> IF history = <<>> THEN 1 ELSE Head(history).id + 1,
               type |-> type, message |-> message]
  IN  <<item>> \o SubSeq(history, 1, Min(Len(history), HistoryKept))

\* the history after addSyncHistoryItem(type, message): the new item, whose
\* id stands for the order of Date.now(), in front of prev.slice(0, 9)
addSyncHistoryItem(history, type, message) ==
  LET item == [id |-> IF history = <<>> THEN 1 ELSE Head(history).id + 1,
               type |-> type, message |-> message]
  IN  <<item>> \o SubSeq(history, 1, Min(Len(history), HistoryKept - 1))

\* the number of items added to the history so far
ItemsAdded == IF syncHistory = <<>> THEN 0 ELSE Head(syncHistory).id

\* what a call of the Google Calendar service comes to: a success result, a
\* failure result (success: false), or a thrown error
Outcomes == {"success", "failure", "throws"}

RECURSIVE CountOf(_, _)
\* how many entries of the sequence are x
CountOf(s, x) ==
  IF s = <<>> THEN 0 ELSE (IF Head(s) = x THEN 1 ELSE 0) + CountOf(Tail(s), x)

\* successCount counting every settled export, failed ones as well
SuccessCountAfter_CountsAll(successCount, outcome) == successCount + 1

\* successCount after one export has settled
SuccessCountAfter(successCount, outcome) ==
  successCount + (IF outcome = "success" THEN 1 ELSE 0)

\* handleExportToGoogle up to its first await; its button is disabled while
\* isExporting is set or the list is empty
handleExportToGoogle ==
  /\ ~(syncStatus.isExporting \/ Len(events) = 0)
  /\ ItemsAdded < MaxSyncItems
  /\ ~(~authStatus.isSignedIn \/ Len(events) = 0)
  /\ syncStatus' = [syncStatus EXCEPT !.isExporting = TRUE, !.exportCount = 0]
  /\ task' = [task EXCEPT !.export =
                [op |-> "running", events |-> events, successCount |-> 0,
                 errorCount |-> 0, results |-> <<>>]]
  /\ UNCHANGED <<events, currentDate, tz, call, localStorage, authStatus, syncHistory>>

\* one pass of its loop: exportEventToGoogle settles for the next event
ExportEvent ==
  /\ task.export.op = "running"
  /\ Len(task.export.results) < Len(task.export.events)
  /\ \E outcome \in Outcomes :
       LET successCount == SuccessCountAfter(task.export.successCount, outcome)
           errorCount == task.export.errorCount + (IF outcome = "success" THEN 0 ELSE 1)
       IN  /\ task' = [task EXCEPT !.export.successCount = successCount,
                                   !.export.errorCount = errorCount,
                                   !.export.results = Append(@, outcome)]
           /\ syncStatus' = IF outcome = "success"
                            THEN [syncStatus EXCEPT !.exportCount = successCount]
                            ELSE syncStatus
  /\ UNCHANGED <<events, currentDate, tz, call, localStorage, authStatus, syncHistory>>

\* after the loop: the flag is reset and the history written; the parent's
\* onExportComplete, called when an event was exported, may throw, and the
\* outer catch then writes an error in place of what was left to write
ExportDone ==
  /\ task.export.op = "running"
  /\ Len(task.export.results) = Len(task.export.events)
  /\ \E callbackThrows \in BOOLEAN :
       LET successCount == task.export.successCount
           errorCount == task.export.errorCount
           afterSuccess == IF successCount > 0
                           THEN addSyncHistoryItem(syncHistory, "success", "Exported")
                           ELSE syncHistory
       IN  /\ callbackThrows => successCount > 0
           /\ syncStatus' = [syncStatus EXCEPT !.isExporting = FALSE, !.lastSync = "now",
                                              !.exportCount = successCount]
           /\ syncHistory' =
                IF callbackThrows
                THEN addSyncHistoryItem(afterSuccess, "error", "Export failed")
                ELSE IF errorCount > 0
                     THEN addSyncHistoryItem(afterSuccess, "warning", "failed to export")
                     ELSE afterSuccess
  /\ task' = [task EXCEPT !.export.op = "done"]
  /\ UNCHANGED <<events, currentDate, tz, call, localStorage, authStatus>>

\* handleImportFromGoogle up to its await; its button is disabled while
\* isImporting is set
handleImportFromGoogle ==
  /\ ~syncStatus.isImporting
  /\ ItemsAdded < MaxSyncItems
  /\ ~(~authStatus.isSignedIn)
  /\ syncStatus' = [syncStatus EXCEPT !.isImporting = TRUE, !.importCount = 0]
  /\ task' = [task EXCEPT !.import = [op |-> "running"]]
  /\ UNCHANGED <<events, currentDate, tz, call, localStorage, authStatus, syncHistory>>

\* importEventsFromGoogle settles: the rest of handleImportFromGoogle; the
\* parent's onImportEvents, called when events were found, may throw, and
\* the outer catch then writes an error in place of the success item
ImportSettled ==
  /\ task.import.op = "running"
  /\ \E outcome \in Outcomes, found \in 0..MaxEvents, callbackThrows \in BOOLEAN :
       /\ outcome # "success" => found = 0
       /\ callbackThrows => found > 0
       /\ task' = [task EXCEPT !.import = [op |-> "done", outcome |-> outcome]]
       /\ CASE outcome = "success" ->
                 /\ syncStatus' = [syncStatus EXCEPT !.isImporting = FALSE,
                                     !.lastSync = "now", !.importCount = found]
                 /\ syncHistory' =
                      IF callbackThrows
                      THEN addSyncHistoryItem(syncHistory, "error", "Import failed")
                      ELSE IF found > 0
                      THEN addSyncHistoryItem(syncHistory, "success", "Imported")
                      ELSE addSyncHistoryItem(syncHistory, "info", "No new events")
            [] outcome = "failure" ->
                 /\ syncStatus' = syncStatus
                 /\ syncHistory' = addSyncHistoryItem(syncHistory, "error", "Import failed")
            [] outcome = "throws" ->
                 /\ syncStatus' = [syncStatus EXCEPT !.isImporting = FALSE]
                 /\ syncHistory' = addSyncHistoryItem(syncHistory, "error", "Import failed")
  /\ UNCHANGED <<events, currentDate, tz, call, localStorage, authStatus>>

\* the event the lists of the sync panel are made of
SyncEvent == Event(TargetDay, 5, <<1, 0>>, FALSE, JsNum(1), "days")

InitSync ==
  /\ events \in {WithIds(s) : s \in SeqsUpTo({SyncEvent}, MaxEvents)}
  /\ tz = 0
  /\ currentDate = NewDate(2024, 1, 1, 0)
  /\ call = NoCall
  /\ localStorage = DisabledStorage
  /\ authStatus \in [isSignedIn : BOOLEAN]
  /\ SyncMounted

NextSync ==
  \/ handleExportToGoogle
  \/ ExportEvent
  \/ ExportDone
  \/ handleImportFromGoogle
  \/ ImportSettled

\* a call of the service settles, and the code after an await runs
SpecSync ==
  /\ InitSync
  /\ [][NextSync]_vars
  /\ WF_vars(ExportEvent)
  /\ WF_vars(ExportDone)
  /\ WF_vars(ImportSettled)

(***************************************************************************)
(* The sync history alone: any sequence of addSyncHistoryItem calls        *)
(***************************************************************************)
\* the number of addSyncHistoryItem calls followed
MaxHistoryAdds == 12

\* the kinds of item the handlers add
HistoryTypes == {"success", "error"}

\* one call of addSyncHistoryItem, from whichever handler
AddHistoryItem ==
  /\ ItemsAdded < MaxHistoryAdds
  /\ \E type \in HistoryTypes :
       syncHistory' = addSyncHistoryItem(syncHistory, type, "sync")
  /\ UNCHANGED <<events, currentDate, tz, call, localStorage, authStatus, syncStatus, task>>

InitHistory ==
  /\ events = <<>>
  /\ tz = 0
  /\ currentDate = NewDate(2024, 1, 1, 0)
  /\ call = NoCall
  /\ localStorage = DisabledStorage
  /\ authStatus \in [isSignedIn : BOOLEAN]
  /\ SyncMounted

NextHistory == AddHistoryItem

SpecHistory == InitHistory /\ [][NextHistory]_vars

(***************************************************************************)
(* Properties                                                              *)
(***************************************************************************)
\* the displayed year and month
ViewYear == getFullYear(currentDate, tz)

ViewMonth == getMonth(currentDate, tz)

\* the day of the week of the 1st of the displayed month, and its length
LeadingCount == WeekDay(MakeDay(ViewYear, ViewMonth, 1))

MonthLength == DaysInMonth(ViewYear, ViewMonth)

InMonthCells(grid) == {i \in 1..Len(grid) : grid[i].isCurrentMonth}

\* the event is one of those the cell lists
ListedIn(cell, event) == \E j \in 1..Len(cell.events) : cell.events[j] = event

DayCallDone == call.op = "calculateDayInfluence" /\ call.done

\* C1: no event that a grid cell counts as a direct event of its day also
\* adds to the reach score of that same cell, whatever the time zone.
C1_NoDoubleCounting ==
  LET grid == calendarDays
  IN  \A i \in InMonthCells(grid) : \A k \in 1..Len(events) :
        ListedIn(grid[i], events[k]) => ReachEffect(grid[i].fullDate, events[k]) = 0

\* C2: the total score calculateDayInfluence returns is at most 120.
C2_TotalAtMost120 ==
  DayCallDone => call.result.total <= 120 * Micro

\* C3: every in-month cell has a total >= 0 and an influenceScore that is an
\* integer in 0..100.
C3_ScoreRange ==
  LET grid == calendarDays
  IN  \A i \in InMonthCells(grid) :
        /\ grid[i].influenceBreakdown.total >= 0
        /\ grid[i].influenceScore \in 0..100

\* C3 witness: a cell whose raw total is above 100 and is shown as 100, beside
\* a cell with a score strictly between 0 and 100.
C3_Witness ==
  LET grid == calendarDays
  IN  /\ \E i \in InMonthCells(grid) :
           grid[i].rawInfluenceScore > 100 * Micro /\ grid[i].influenceScore = 100
      /\ \E i \in InMonthCells(grid) :
           grid[i].influenceScore > 0 /\ grid[i].influenceScore < 100

\* C4: reachToDays returns a strictly positive number for every input.
C4_ReachPositive ==
  (call.op = "reachToDays" /\ call.done) => call.result > 0

\* C5: the leading padding cells are the last days of the month before the
\* displayed one, consecutive and ascending, each labelled with its own
\* day of the month.
C5_LeadingCellsArePreviousMonth ==
  LET grid == calendarDays
      lastOfPrevious == MakeDay(ViewYear, ViewMonth, 0)
  IN  \A k \in 1..LeadingCount :
        /\ ~grid[k].isCurrentMonth
        /\ LocalDay(grid[k].fullDate, tz) = lastOfPrevious - (LeadingCount - k)
        /\ grid[k].date = DateFromDay(LocalDay(grid[k].fullDate, tz))

\* C6: the grid has exactly 42 cells: as many leading cells as the day of the
\* week of the 1st, one cell per day of the month in ascending order, and
\* 42 - (leading + days in month) >= 0 trailing cells numbered from 1.
C6_GridLayout ==
  LET grid == calendarDays
      L == LeadingCount
      n == MonthLength
  IN  /\ Len(grid) = 42
      /\ 42 - (L + n) >= 0
      /\ \A k \in 1..L : ~grid[k].isCurrentMonth
      /\ \A d \in 1..n : grid[L + d].isCurrentMonth /\ grid[L + d].date = d
      /\ \A j \in 1..(42 - (L + n)) :
           ~grid[L + n + j].isCurrentMonth /\ grid[L + n + j].date = j

\* C6 witness: a month of 31 days whose 1st is a Saturday, the fullest grid.
C6_Witness ==
  /\ LeadingCount = 6
  /\ MonthLength = 31
  /\ Len(calendarDays) = 42

\* C7: the in-month cell labelled d lists, and scores as direct events,
\* exactly the events whose date is day d of the displayed month.
C7_CellListsItsOwnDay ==
  LET grid == calendarDays
  IN  \A i \in InMonthCells(grid) :
        LET OnCellDay(event) == event.date = MakeDay(ViewYear, ViewMonth, grid[i].date)
            own == SelectSeq(events, OnCellDay)
        IN  /\ grid[i].events = own
            /\ grid[i].influenceBreakdown.directEvents =
                 [j \in 1..Len(own) |-> DirectEntry(own[j])]

\* C8: an event with a reach of N whole days gives a strictly positive reach
\* effect to each of the N calendar days after its date, as the grid
\* evaluates them.
C8_ReachCoversNDays ==
  LET grid == calendarDays
  IN  \A i \in InMonthCells(grid) : \A k \in 1..Len(events) :
        LET after == MakeDay(ViewYear, ViewMonth, grid[i].date) - events[k].date
            N == reachToDays(events[k].reachValue, events[k].reachUnit)
        IN  (N >= 1 /\ after >= 1 /\ after <= N)
              => ReachEffect(grid[i].fullDate, events[k]) > 0

\* C9: total = max(direct, 1.2 * reach) when direct > 0, so total >= direct;
\* total = reach when direct = 0.
C9_CombinationRule ==
  DayCallDone =>
    LET r == call.result
        boosted == (r.reach * 6) \div 5
    IN  /\ r.direct > 0 =>
             /\ r.total >= r.direct
             /\ r.total >= boosted
             /\ r.total \in {r.direct, boosted}
        /\ r.direct = 0 => r.total = r.reach

\* C9 witness: a returned call with a direct part that the reach part lifts.
C9_Witness ==
  /\ DayCallDone
  /\ call.result.direct > 0
  /\ call.result.total > call.result.direct

\* the events dated on the day of the target date that C10 adds to a list
ExtraEvents(date) ==
  { Event(ToISODateString(date), impact, <<1, 0>>, isAllDay, JsNum(1), "days") :
      impact \in 1..10, isAllDay \in BOOLEAN }

\* C10: a list with no event on the target date scores strictly less than
\* the same list with one more event dated on the target date.
C10_DirectEventRaisesTotal ==
  (DayCallDone /\ call.result.directEvents = <<>>) =>
    \A e \in ExtraEvents(call.date) :
      /\ call.result.total < calculateDayInfluence(call.date, <<e>> \o call.events).total
      /\ call.result.total < calculateDayInfluence(call.date, Append(call.events, e)).total

\* C10 witness: a returned call with no direct event whose reach part alone
\* is above the direct score of a low-impact event.
C10_Witness ==
  /\ DayCallDone
  /\ call.result.directEvents = <<>>
  /\ call.result.reach > 25 * Micro

\* the events of a returned call that are dated on the day of its target date
CallDayEvents ==
  LET OnDay(event) == event.date = ToISODateString(call.date)
  IN  SelectSeq(call.events, OnDay)

\* the raw sum S of their per-event scores
CallRawSum == SumScores(CallDayEvents)

C11_SoftWitness ==
  /\ DayCallDone
  /\ CallRawSum > 100 * Micro
  /\ call.result.direct > 100 * Micro
  /\ call.result.direct < 120 * Micro

\* a returned call whose raw sum is above 252: the hard cap applies
C11_CapWitness ==
  /\ DayCallDone
  /\ CallRawSum > 252 * Micro
  /\ call.result.direct = 120 * Micro

\* C12: the entries of reachContributions are in non-increasing order of
\* their effect value, and every entry's effect value is strictly greater
\* than 0.5 (effect values are counts of tenths).
C12_ContributionsSortedAboveFloor ==
  DayCallDone =>
    LET list == call.result.reachContributions
    IN  /\ \A i \in 1..(Len(list) - 1) : list[i].effect >= list[i + 1].effect
        /\ \A i \in 1..Len(list) : list[i].effect > 5

\* the event is dated strictly after the target date of the call
IsFuture(event) == ParseDateString(event.date) > call.date

\* the events of the call that are not dated after its target date
CallNotFuture ==
  LET NotFuture(event) == ~IsFuture(event)
  IN  SelectSeq(call.events, NotFuture)

\* C13: an event dated strictly after the target date adds exactly 0 to
\* reachScore, whatever its reach value and unit, and is not in
\* reachContributions: the reach part is that of the list without it.
C13_FutureEventsAddNothing ==
  DayCallDone =>
    LET list == call.result.reachContributions
        without == calculateDayInfluence(call.date, CallNotFuture)
    IN  /\ call.result.reach = without.reach
        /\ list = without.reachContributions
        /\ \A i \in 1..Len(list) : ParseDateString(list[i].date) < call.date
        /\ \A k \in 1..Len(call.events) : IsFuture(call.events[k]) =>
             \A v \in ReachValues, u \in ReachUnits :
               ReachEffect(call.date,
                 [call.events[k] EXCEPT !.reachValue = v, !.reachUnit = u]) = 0

\* C13 witness: a returned call with an event dated after the target date
\* beside a past event that does reach the target date.
C13_Witness ==
  /\ DayCallDone
  /\ \E k \in 1..Len(call.events) : IsFuture(call.events[k])
  /\ call.result.reach > 0
  /\ call.result.reachContributions # <<>>

\* the event is a past event whose elapsed time to the target date of the
\* call exceeds its reach
IsBeyondReach(event) ==
  /\ HoursDiff(call.date, event) > 0
  /\ HoursDiff(call.date, event) >
       HoursPerDay * reachToDays(event.reachValue, event.reachUnit)

\* the events of the call that are not beyond their reach
CallWithinReach ==
  LET Within(event) == ~IsBeyondReach(event)
  IN  SelectSeq(call.events, Within)

\* C14: a past event whose elapsed days to the target date exceed
\* reachToDays(reachValue, reachUnit) adds exactly 0 to reachScore and is not
\* in reachContributions: the reach part is that of the list without it.
C14_BeyondReachAddsNothing ==
  DayCallDone =>
    LET list == call.result.reachContributions
        without == calculateDayInfluence(call.date, CallWithinReach)
    IN  /\ call.result.reach = without.reach
        /\ list = without.reachContributions
        /\ \A k \in 1..Len(call.events) : IsBeyondReach(call.events[k]) =>
             ReachEffect(call.date, call.events[k]) = 0

\* C14 witness: a returned call with a past event beyond its reach beside a
\* past event that does reach the target date.
C14_Witness ==
  /\ DayCallDone
  /\ \E k \in 1..Len(call.events) : IsBeyondReach(call.events[k])
  /\ call.result.reach > 0
  /\ call.result.reachContributions # <<>>

\* C15: each in-month cell's influenceScore is round(min(100, total)), with
\* total the result of calculateDayInfluence for the cell's date and the full
\* event list; a padding cell carries no influence score and no breakdown.
C15_CellScoreFromFullList ==
  LET grid == calendarDays
  IN  \A i \in 1..Len(grid) :
        IF grid[i].isCurrentMonth
        THEN LET breakdown == calculateDayInfluence(grid[i].fullDate, events)
             IN  /\ grid[i].influenceBreakdown = breakdown
                 /\ grid[i].influenceScore = Round(Min(100 * Micro, breakdown.total))
        ELSE DOMAIN grid[i] \cap
               {"influenceScore", "influenceBreakdown", "rawInfluenceScore"} = {}

\* C15 witness: March 2024 is displayed, every event is dated in February,
\* and a cell of March has a positive score from the reach of those events.
C15_Witness ==
  LET grid == calendarDays
  IN  /\ ViewYear = 2024 /\ ViewMonth = 2
      /\ events # <<>>
      /\ \A k \in 1..Len(events) : MonthFromDay(events[k].date) = 1
      /\ \E i \in InMonthCells(grid) :
           grid[i].influenceScore > 0 /\ grid[i].events = <<>>

\* C16: for events with a valid date and an impact in 1..10, whose duration,
\* reach value and reach unit may be missing and whose reach value may be
\* zero or negative, every returned number is a finite number that is not
\* negative, and an event's decay is evaluated (it adds a nonzero effect)
\* only inside a window with reachDays > 0, so that the divisor
\* reachDays * 0.2 is strictly positive.
C16_FiniteResult ==
  DayCallDone =>
    LET r == call.result
    IN  /\ r.total \in Nat /\ r.direct \in Nat /\ r.reach \in Nat
        /\ \A i \in 1..Len(r.directEvents) : r.directEvents[i].score \in Nat
        /\ \A i \in 1..Len(r.reachContributions) :
             /\ r.reachContributions[i].effect \in Nat
             /\ r.reachContributions[i].daysDiff \in Nat
        /\ \A k \in 1..Len(call.events) :
             LET event == call.events[k]
                 reachDays == reachToDays(event.reachValue, event.reachUnit)
                 effect == ReachEffect(call.date, event)
             IN  /\ effect \in Nat
                 /\ effect > 0 => reachDays > 0
                 /\ reachDays <= 0 => effect = 0

\* C16 witness: a returned call with a past event of negative reach and a
\* past event with no duration, a reach value of zero and no unit, whose
\* decay is evaluated with reachDays = 1.
C16_Witness ==
  /\ DayCallDone
  /\ \E k \in 1..Len(call.events) :
       /\ call.events[k].reachValue = JsNum(-3)
       /\ HoursDiff(call.date, call.events[k]) > 0
  /\ \E k \in 1..Len(call.events) :
       /\ call.events[k].duration = <<>>
       /\ call.events[k].reachValue = JsNum(0)
       /\ call.events[k].reachUnit = ""
       /\ ReachEffect(call.date, call.events[k]) > 0

\* the duration factor the claim gives an event, in hundredths
ClaimedFactor(event) ==
  IF event.isAllDay THEN 110
  ELSE IF event.duration # <<>> /\ event.duration[1] * 60 + event.duration[2] >= 120
       THEN 105
  ELSE 100

\* C17: each same-day event's score is impact * 10 times exactly one factor:
\* 1.10 when it is all-day, 1.05 when it is timed and lasts 120 minutes or
\* more, 1.00 otherwise; a timed event with no duration gets 1.00. The raw
\* sum is the sum of these scores and each listed score is the score to one
\* decimal.
C17_DurationBonus ==
  DayCallDone =>
    LET own == CallDayEvents
        list == call.result.directEvents
    IN  /\ Len(list) = Len(own)
        /\ \A i \in 1..Len(own) :
             /\ EventScore(own[i]) = own[i].impact * ClaimedFactor(own[i]) * (Micro \div 10)
             /\ list[i].score = own[i].impact * ClaimedFactor(own[i])
        /\ \A i \in 1..Len(own) :
             (~own[i].isAllDay /\ own[i].duration = <<>>) =>
               list[i].score = own[i].impact * 100

\* C17 witness: a returned call with an all-day event of three hours, which
\* gets 1.10 only, beside a timed event with no duration, which gets 1.00.
C17_Witness ==
  /\ DayCallDone
  /\ \E i \in 1..Len(CallDayEvents) :
       /\ CallDayEvents[i].isAllDay
       /\ TotalMinutes(CallDayEvents[i]) >= 120
       /\ call.result.directEvents[i].score = CallDayEvents[i].impact * 110
  /\ \E i \in 1..Len(CallDayEvents) :
       /\ ~CallDayEvents[i].isAllDay
       /\ CallDayEvents[i].duration = <<>>
       /\ call.result.directEvents[i].score = CallDayEvents[i].impact * 100

\* a returned call with a timed event of exactly 120 minutes, which gets
\* 1.05, beside one of 119 minutes, which gets 1.00
C17_ThresholdWitness ==
  /\ DayCallDone
  /\ \E i \in 1..Len(CallDayEvents) :
       /\ ~CallDayEvents[i].isAllDay
       /\ TotalMinutes(CallDayEvents[i]) = 120
       /\ call.result.directEvents[i].score = CallDayEvents[i].impact * 105
  /\ \E i \in 1..Len(CallDayEvents) :
       /\ ~CallDayEvents[i].isAllDay
       /\ TotalMinutes(CallDayEvents[i]) = 119
       /\ call.result.directEvents[i].score = CallDayEvents[i].impact * 100

\* a call of either definition of reachToDays has returned
ReachCallDone == call.op \in {"reachToDays", "App.reachToDays"} /\ call.done

\* the number the claim has reachToDays multiply: the reach value, or 1 when
\* it is missing, not a number or 0
ClaimedValue(reachValue) ==
  IF reachValue.kind = "num" /\ reachValue.n # 0 THEN reachValue.n ELSE 1

ClaimedMultiplier(reachUnit) ==
  CASE reachUnit = "days" -> 1
    [] reachUnit = "weeks" -> 7
    [] reachUnit = "months" -> 30
    [] reachUnit = "years" -> 365
    [] OTHER -> 1

\* C18: reachToDays multiplies the value by 1 for 'days', 7 for 'weeks', 30
\* for 'months', 365 for 'years' and 1 for any other or a missing unit, so
\* (2, 'weeks') gives 14, (1, 'years') gives 365 and (undefined, 'days')
\* gives 1; the definitions of Calendar.jsx and App.jsx return the same
\* result on every input.
C18_ReachToDays ==
  ReachCallDone =>
    /\ call.result = ClaimedValue(call.reachValue) * ClaimedMultiplier(call.reachUnit)
    /\ call.result = reachToDays(call.reachValue, call.reachUnit)
    /\ call.result = App_reachToDays(call.reachValue, call.reachUnit)
    /\ (call.reachValue = JsNum(2) /\ call.reachUnit = "weeks") => call.result = 14
    /\ (call.reachValue = JsNum(1) /\ call.reachUnit = "years") => call.result = 365
    /\ (call.reachValue = JsOther("undefined") /\ call.reachUnit = "days") =>
         call.result = 1

\* C18 witness: App.jsx's reachToDays has returned 14 for (2, 'weeks').
C18_Witness ==
  /\ call.op = "App.reachToDays"
  /\ call.done
  /\ call.reachValue = JsNum(2)
  /\ call.reachUnit = "weeks"
  /\ call.result = 14

\* Calendar.jsx's reachToDays has returned its value unchanged for a unit it
\* does not know
C18_DefaultUnitWitness ==
  /\ call.op = "reachToDays"
  /\ call.done
  /\ call.reachUnit = "hours"
  /\ call.reachValue = JsNum(3)
  /\ call.result = 3

RECURSIVE SumEntryScores(_)
\* the sum of the scores the entries of directEvents show, in tenths
SumEntryScores(list) ==
  IF list = <<>> THEN 0 ELSE Head(list).score + SumEntryScores(Tail(list))

\* C19: directEvents holds one entry per event dated on the day of the target
\* date, in the order those events have in the input list, and each entry's
\* score is the event's own score after the duration bonus: the scores add
\* up to the raw sum, also when the soft cap has lowered the direct part.
C19_DirectEvents ==
  DayCallDone =>
    LET own == CallDayEvents
        list == call.result.directEvents
    IN  /\ Len(list) = Len(own)
        /\ \A i \in 1..Len(own) :
             /\ list[i].name = own[i].name
             /\ list[i].impact = own[i].impact
             /\ list[i].score * (Micro \div 10) = EventScore(own[i])
        /\ SumEntryScores(list) * (Micro \div 10) = CallRawSum

\* C19 witness: a returned call with two same-day events of different scores
\* whose sum the soft cap has lowered, listed in input order with the score
\* of the second one the larger.
C19_Witness ==
  /\ DayCallDone
  /\ Len(call.result.directEvents) >= 2
  /\ call.result.directEvents[1].score < call.result.directEvents[2].score
  /\ call.result.direct < CallRawSum
  /\ Len(call.events) > Len(call.result.directEvents)

\* the event is a past event whose reach covers the target date of the call
IsWithinReach(event) ==
  /\ HoursDiff(call.date, event) > 0
  /\ HoursDiff(call.date, event) <=
       HoursPerDay * reachToDays(event.reachValue, event.reachUnit)

\* no event of the call is on the day of its target date or reaches it
CallIsQuiet ==
  /\ CallDayEvents = <<>>
  /\ \A k \in 1..Len(call.events) : ~IsWithinReach(call.events[k])

\* C20: for a target date with no event on it and no past event within reach,
\* the empty list included, calculateDayInfluence returns total = 0,
\* direct = 0, reach = 0 and two empty lists.
C20_QuietDayIsZero ==
  (DayCallDone /\ CallIsQuiet) =>
    call.result = [total |-> 0, direct |-> 0, reach |-> 0,
                   directEvents |-> <<>>, reachContributions |-> <<>>]

\* C20 witness: a returned call whose list holds an event after the target
\* date and a past event beyond its reach, and nothing else.
C20_Witness ==
  /\ DayCallDone
  /\ CallIsQuiet
  /\ \E k \in 1..Len(call.events) : IsFuture(call.events[k])
  /\ \E k \in 1..Len(call.events) : IsBeyondReach(call.events[k])
  /\ call.result.total = 0

\* the call with the empty list has returned
C20_EmptyListWitness ==
  /\ DayCallDone
  /\ call.events = <<>>
  /\ call.result.total = 0

C21_GridWitness ==
  /\ call.op = "calendarData"
  /\ call.done
  /\ Len(call.events) = 2
  /\ Len(call.result) = GridCells

\* C22: after any sequence of add-event, delete-event and clear-all
\* operations, each followed by the save effect, StorageManager.loadEvents
\* returns exactly the event list that is in memory.
C22_ReloadRestoresEvents == loadEvents(localStorage) = events

RECURSIVE SumReachBounds(_)
\* the sum of 0.3 * impact * 10 over the events that reach the target date
SumReachBounds(s) ==
  IF s = <<>> THEN 0
  ELSE (IF IsWithinReach(Head(s)) THEN Head(s).impact * 3 * Micro ELSE 0)
         + SumReachBounds(Tail(s))

\* C23: for a target date strictly after an event's date and inside its
\* reach window the event's reach effect is strictly less than
\* 0.3 * impact * 10, and so strictly less than the direct score
\* impact * 10 the event gives on its own day; the reach part of the result
\* is below the sum of these bounds.
C23_ReachBelowDirect ==
  DayCallDone =>
    /\ \A k \in 1..Len(call.events) :
         LET event == call.events[k]
         IN  IsWithinReach(event) =>
               /\ ReachEffect(call.date, event) < event.impact * 3 * Micro
               /\ ReachEffect(call.date, event) < event.impact * 10 * Micro
               /\ event.impact * 10 * Micro <= EventScore(event)
    /\ (\E k \in 1..Len(call.events) : IsWithinReach(call.events[k])) =>
         call.result.reach < SumReachBounds(call.events)

\* C23 witness: a returned call with an impact-10 event of the day before
\* whose reach of a year has hardly decayed: its effect is above 29.
C23_Witness ==
  /\ DayCallDone
  /\ \E k \in 1..Len(call.events) :
       /\ IsWithinReach(call.events[k])
       /\ call.events[k].impact = 10
       /\ ReachEffect(call.date, call.events[k]) > 29 * Micro
  /\ call.result.reach > 29 * Micro

\* the events dated on the day of the target date that C24 adds to a list:
\* the least one (impact 1, timed, no duration), one of impact 5 lasting two
\* hours, and the greatest one (impact 10, all-day)
MoreEvents(date) ==
  { Event(ToISODateString(date), 1, <<>>, FALSE, JsNum(1), "days"),
    Event(ToISODateString(date), 5, <<2, 0>>, FALSE, JsNum(1), "days"),
    Event(ToISODateString(date), 10, <<1, 0>>, TRUE, JsNum(1), "days") }

\* C24: adding one more event dated on the target date never lowers that
\* date's direct score or its total, and the soft-capped direct score is
\* non-decreasing in the raw sum, across the threshold at 100 as well: it is
\* not lowered by the least score an event can add, 10.
C24_MoreEventsNeverLower ==
  DayCallDone =>
    /\ \A e \in MoreEvents(call.date) :
         LET more == calculateDayInfluence(call.date, <<e>> \o call.events)
         IN  /\ more.direct >= call.result.direct
             /\ more.total >= call.result.total
    /\ call.result.direct <= SoftCap(CallRawSum + 10 * Micro)

\* C24 witness: a returned call whose raw sum is below 100 and which one more
\* impact-5 event takes across the threshold.
C24_Witness ==
  /\ DayCallDone
  /\ CallRawSum > 50 * Micro
  /\ CallRawSum < 100 * Micro
  /\ call.result.direct = CallRawSum
  /\ \E e \in MoreEvents(call.date) :
       /\ e.impact = 5
       /\ calculateDayInfluence(call.date, <<e>> \o call.events).direct > 100 * Micro

\* C25: every call of handleImportFromGoogle that sets isImporting to true
\* eventually sets it back to false, whether importEventsFromGoogle returns
\* a success result, returns a failure result, or throws.
C25_ImportFlagReset == syncStatus.isImporting ~> ~syncStatus.isImporting

\* C26: every call of handleExportToGoogle that sets isExporting to true
\* eventually sets it back to false, for every mix of per-event successes,
\* failure results and thrown errors, and the final exportCount is the
\* number of events whose export returned success.
C26_ExportFlagResetAndCount ==
  /\ syncStatus.isExporting ~> ~syncStatus.isExporting
  /\ [](task.export.op = "done" =>
          /\ ~syncStatus.isExporting
          /\ syncStatus.exportCount = CountOf(task.export.results, "success"))
  /\ [](task.export.op = "running" => syncStatus.isExporting)

\* C26 witness: an export of two events has ended, one exported and one
\* not, with exportCount 1 and the flag back to false.
C26_Witness ==
  /\ task.export.op = "done"
  /\ Len(task.export.results) = 2
  /\ CountOf(task.export.results, "success") = 1
  /\ syncStatus.exportCount = 1
  /\ ~syncStatus.isExporting

\* the ids of the list are pairwise distinct
DistinctIds(evs) == \A i, j \in 1..Len(evs) : i # j => evs[i].id # evs[j].id

\* C27: after handleImportEvents has merged a confirmed file import that
\* passes validation into a list whose ids are pairwise distinct, the list
\* still has pairwise distinct ids.
C27_ImportKeepsIdsDistinct == DistinctIds(events)

\* the fields an event keeps through Google Calendar
KeptFields ==
  {"id", "name", "category", "date", "isAllDay", "duration", "impact",
   "reachValue", "reachUnit", "rippleScore"}

\* C28: an event with integer id, impact and reachValue that is converted to
\* a Google event and back has the same id, name, category, date, isAllDay,
\* duration, impact, reachValue, reachUnit and rippleScore as before
C28_RoundTripKeepsFields ==
  (call.op = "googleRoundTrip" /\ call.done) =>
    /\ ~call.result.throws
    /\ \A field \in KeptFields : call.result.event[field] = call.event[field]

\* C29: every saveEvents call that succeeds while the primary key holds data
\* (the save effect after a step that leaves a list that is not empty) leaves
\* in the backup key the data the primary key held just before and in the
\* primary key the list just saved
C29_BackupIsPreviousPrimary ==
  [][(localStorage.enabled /\ localStorage.primary.text /\ Len(events') > 0) =>
       /\ localStorage'.backup = localStorage.primary
       /\ localStorage'.primary = JSONStringify(events')]_vars

\* two saves have happened: the backup holds an older list than the primary key
C29_Witness ==
  /\ localStorage.backup.text
  /\ localStorage.primary = JSONStringify(events)
  /\ localStorage.backup # localStorage.primary
  /\ Len(events) > 0

\* C30: whatever the sequence of addSyncHistoryItem calls, the history holds
\* at most HistoryKept items, and after each call its first item is the one
\* just added and the items behind it are the previous items, from the most
\* recent on, in the order they had
C30_HistoryBounded ==
  [][syncHistory' # syncHistory =>
       /\ Len(syncHistory') = Min(Len(syncHistory) + 1, HistoryKept)
       /\ Head(syncHistory').id = ItemsAdded + 1
       /\ Tail(syncHistory') = SubSeq(syncHistory, 1, Len(syncHistory') - 1)]_vars

\* the history is full and its oldest items have been dropped
C30_Witness ==
  /\ Len(syncHistory) = HistoryKept
  /\ Head(syncHistory).id > HistoryKept
  /\ \A i \in 1..(HistoryKept - 1) : syncHistory[i].id = syncHistory[i + 1].id + 1

====
